---- MODULE Spec2Model ----
(***************************************************************************)
(* A model of metapkg's two correctness engines:                           *)
(*   - Build.handle / Build._resolve_deps / Build._check_dep_consistency   *)
(*     (src/metapkg/commands/build.py): dependency resolution, ordering,   *)
(*     cycle breaking, cross-graph reconciliation;                         *)
(*   - Build._fixup_binaries (src/metapkg/targets/generic/build.py): the   *)
(*     shared-library closure check and consolidation of a package image.  *)
(***************************************************************************)
EXTENDS Integers, Sequences, FiniteSets, TLC

\* ------------------------------------------------------------------------
\* Bounds of the model
\* ------------------------------------------------------------------------
MaxReqs == 4
MaxVersion == 2
MaxRefs == 2

\* ------------------------------------------------------------------------
\* Generic helpers on sequences
\* ------------------------------------------------------------------------
Range(s) == { s[i] : i \in 1..Len(s) }

InSeq(x, s) == \E i \in 1..Len(s) : s[i] = x

\* list.index(x): position of the first occurrence (0 when absent)
IndexOf(x, s) ==
  IF InSeq(x, s) THEN CHOOSE i \in 1..Len(s) : s[i] = x /\ \A j \in 1..(i-1) : s[j] # x
  ELSE 0

Count(x, s) == Cardinality({ i \in 1..Len(s) : s[i] = x })

Reverse(s) == [ i \in 1..Len(s) |-> s[Len(s) + 1 - i] ]

\* the elements of s that satisfy membership in S, order kept
Restrict(s, S) == SelectSeq(s, LAMBDA x : x \in S)

\* Op applied to the value of e (e is evaluated once, before Op)
Strict(Op(_), e) == CHOOSE r \in { Op(x) : x \in {e} } : TRUE

\* ------------------------------------------------------------------------
\* Packages, requirements, the package pool
\* ------------------------------------------------------------------------
Names == {"a", "b", "c", "d"}
NameSeq == <<"a", "b", "c", "d">>
RootName == "a"

\* a poetry Dependency as _resolve_deps reads it: req.name,
\* env.is_valid_for_marker(req.marker), req.is_activated()
Req(n, m, act) == [name |-> n, marker |-> m, activated |-> act]

\* iteration orders (of the oracle's result, of a Python set of names)
Orders == {NameSeq, Reverse(NameSeq)}

\* ------------------------------------------------------------------------
\* graphlib.TopologicalSorter as _resolve_deps uses it.  A graph is the
\* Python dict handed to the sorter: a sequence (dict insertion order) of
\* entries [node, preds], preds the node's dependency set in the order the
\* set is iterated.
\* ------------------------------------------------------------------------
GraphKeys(G) == { G[i].node : i \in 1..Len(G) }

GraphPreds(G, n) ==
  IF n \in GraphKeys(G)
  THEN (CHOOSE i \in 1..Len(G) : G[i].node = n /\ \A j \in 1..(i-1) : G[j].node # n) 
  ELSE 0

PredsOf(G, n) == IF GraphPreds(G, n) = 0 THEN <<>> ELSE G[GraphPreds(G, n)].preds

\* dict insertion of the names of s (no name twice) after those of acc
AppendNew(acc, s) == acc \o SelectSeq(s, LAMBDA x : ~InSeq(x, acc))

\* the keys of _node2info in insertion order: add(node, *predecessors)
\* creates the node's info first, then one for each predecessor
RECURSIVE NodeOrderUpTo(_, _)
NodeOrderUpTo(G, k) ==
  IF k = 0 THEN <<>>
  ELSE Strict(LAMBDA front : AppendNew(AppendNew(front, <<G[k].node>>), G[k].preds),
              NodeOrderUpTo(G, k - 1))

NodeOrder(G) == NodeOrderUpTo(G, Len(G))

\* _NodeInfo.successors of n: every node that lists n as a predecessor,
\* in the order the graph's entries were added
Successors(G, n) ==
  LET users == SelectSeq(G, LAMBDA e : InSeq(n, e.preds))
  IN [ i \in 1..Len(users) |-> users[i].node ]

NPredecessors(G, n) == Len(PredsOf(G, n))

\* TopologicalSorter._find_cycle: an iterative depth-first walk along the
\* successor lists.  w.stack and w.its (the position of the next successor
\* to take, one per stack entry) are the walk's two stacks, w.roots the
\* nodes the outer for loop has still to start from; w.node is the node
\* the inner loop looks at ("" when it must take the next root).
WalkStart(G) ==
  [node |-> "", stack |-> <<>>, its |-> <<>>, seen |-> {}, roots |-> NodeOrder(G),
   cycle |-> <<>>, done |-> FALSE]

\* the backtracking inner loop: the next successor of the topmost stack
\* entry that has one
RECURSIVE WalkBacktrack(_, _)
WalkBacktrack(G, w) ==
  IF w.stack = <<>> THEN [w EXCEPT !.node = ""]
  ELSE LET top == w.stack[Len(w.stack)]
           i == w.its[Len(w.its)]
           succ == Successors(G, top)
       IN IF i <= Len(succ)
          THEN [w EXCEPT !.node = succ[i], !.its[Len(w.its)] = i + 1]
          ELSE Strict(LAMBDA x : WalkBacktrack(G, x),
                      [w EXCEPT !.stack = SubSeq(w.stack, 1, Len(w.stack) - 1),
                                !.its = SubSeq(w.its, 1, Len(w.its) - 1)])

WalkStep(G, w) ==
  IF w.node = ""
  THEN IF w.roots = <<>> THEN [w EXCEPT !.done = TRUE]
       ELSE IF Head(w.roots) \in w.seen THEN [w EXCEPT !.roots = Tail(w.roots)]
       ELSE [w EXCEPT !.node = Head(w.roots), !.roots = Tail(w.roots)]
  ELSE IF w.node \in w.seen
  THEN IF InSeq(w.node, w.stack)
       THEN [w EXCEPT !.done = TRUE,
                      !.cycle = Append(SubSeq(w.stack, IndexOf(w.node, w.stack),
                                              Len(w.stack)), w.node)]
       ELSE WalkBacktrack(G, w)
  ELSE Strict(LAMBDA x : WalkBacktrack(G, x),
              [w EXCEPT !.seen = w.seen \cup {w.node},
                        !.its = Append(w.its, 1),
                        !.stack = Append(w.stack, w.node)])

RECURSIVE Walk(_, _)
Walk(G, w) ==
  IF w.done THEN w ELSE Strict(LAMBDA x : Walk(G, x), WalkStep(G, w))

\* the cycle CycleError carries (e.args[1]); <<>> when the graph has none
FindCycle(G) == Strict(LAMBDA w : Walk(G, w).cycle, WalkStart(G))

\* done(*nodes) for the nodes of one get_ready() group: the successors that
\* lose a predecessor, in the order they lose it
RECURSIVE DoneEvents(_, _, _)
DoneEvents(G, group, k) ==
  IF k = 0 THEN <<>>
  ELSE Strict(LAMBDA front : front \o Successors(G, group[k]), DoneEvents(G, group, k - 1))

\* the loop of static_order on d = [npred, ready, out]: get_ready(), yield,
\* done(); a successor whose count reaches zero is appended to _ready_nodes
DrainStepOn(d, ev) ==
  LET seenUpTo(k) == Cardinality({ j \in 1..k : ev[j] = ev[k] })
      zeroAt == { k \in 1..Len(ev) : seenUpTo(k) = d.npred[ev[k]] }
  IN [npred |-> [ n \in DOMAIN d.npred |-> d.npred[n] - Count(n, ev) ],
      ready |-> [ j \in 1..Cardinality(zeroAt) |->
                    ev[CHOOSE k \in zeroAt : Cardinality({ m \in zeroAt : m <= k }) = j] ],
      out |-> d.out \o d.ready]

\* one round of the loop, on the done() events of the group just yielded
DrainStep(G, d) ==
  Strict(LAMBDA ev : DrainStepOn(d, ev), DoneEvents(G, d.ready, Len(d.ready)))

RECURSIVE Drain(_, _)
Drain(G, d) ==
  IF d.ready = <<>> THEN d.out ELSE Strict(LAMBDA x : Drain(G, x), DrainStep(G, d))

\* TopologicalSorter(graph).static_order(): the nodes, predecessors first,
\* or the cycle prepare() raises CycleError with
\* static_order once prepare() has looked for a cycle (cyc) and the nodes
\* are known in insertion order
StaticOrderOn(G, cyc, nodes) ==
  LET npred == [ n \in Range(nodes) |-> NPredecessors(G, n) ]
      ready == SelectSeq(nodes, LAMBDA n : npred[n] = 0)
  IN IF cyc # <<>> THEN [ok |-> FALSE, cycle |-> cyc, order |-> <<>>]
     ELSE [ok |-> TRUE, cycle |-> <<>>,
           order |-> Drain(G, [npred |-> npred, ready |-> ready, out |-> <<>>])]

StaticOrder(G) ==
  Strict(LAMBDA cyc : Strict(LAMBDA nodes : StaticOrderOn(G, cyc, nodes), NodeOrder(G)),
         FindCycle(G))

\* ------------------------------------------------------------------------
\* The package pool and the resolution oracle (external collaborators).
\* pool.requires[n] / pool.build_requires[n]: dep_package.requires and
\* get_build_requirements(dep_package); pool.cyclic[n]:
\* get_cyclic_runtime_deps(); pool.versions[n]: the versions on offer.
\* ------------------------------------------------------------------------
Pkg(n, v) == [name |-> n, version |-> v]

PoolReq(src, kind, r) == [src |-> src, kind |-> kind, req |-> r]

\* the extras the solves run with: the target's capability flags and the
\* root package's features (build.py lines 258-261)
ActiveExtras == {"capability-x"}

\* Provider.complete_package (repository.py lines 154-158): a requirement
\* gated on extras is activated when none of its extras is missing from the
\* active ones; a requirement without a gate is active as created
IsActivated(dep_in_extras, active_extras) ==
  dep_in_extras = {} \/ (dep_in_extras \ active_extras) = {}

\* the requirements a pool of the model is drawn from
CandReqs ==
  { PoolReq("a", "run",   Req("b", TRUE,  TRUE)),
    PoolReq("b", "run",   Req("c", TRUE,  TRUE)),
    PoolReq("c", "run",   Req("d", TRUE,  IsActivated({"capability-x"}, ActiveExtras))),
    PoolReq("b", "build", Req("a", TRUE,  TRUE)),
    PoolReq("c", "build", Req("b", TRUE,  TRUE)),
    PoolReq("c", "build", Req("a", TRUE,  TRUE)),
    PoolReq("d", "build", Req("a", TRUE,  TRUE)),
    PoolReq("b", "run",   Req("a", FALSE, TRUE)),
    PoolReq("a", "build", Req("a", TRUE,  TRUE)),
    PoolReq("a", "run",   Req("c", TRUE,  IsActivated({"feature-y"}, ActiveExtras))),
    PoolReq("a", "run",   Req("d", TRUE,  TRUE)) }

\* the declarations [pkg, dep] (dep in pkg.get_cyclic_runtime_deps()) a
\* pool of the model is drawn from
CandCyclic ==
  { <<"a", "b">>, <<"b", "a">>, <<"c", "b">>, <<"a", "d">> }

MakePool(reqs, decls, vers) ==
  [ requires |-> [ n \in Names |-> { r.req : r \in { q \in reqs : q.src = n /\ q.kind = "run" } } ],
    build_requires |-> [ n \in Names |-> { r.req : r \in { q \in reqs : q.src = n /\ q.kind = "build" } } ],
    cyclic |-> [ n \in Names |-> { d[2] : d \in { e \in decls : e[1] = n } } ],
    versions |-> vers ]

\* the requirements the solver follows from package n: the activated ones,
\* with the build requirements merged in when include_build_reqs is set
SolverReqs(pl, n, include_build_reqs) ==
  { r \in pl.requires[n] \cup (IF include_build_reqs THEN pl.build_requires[n] ELSE {}) :
      r.activated }

RECURSIVE Closure(_, _, _)
Closure(pl, S, include_build_reqs) ==
  LET T == S \cup UNION { { r.name : r \in SolverReqs(pl, n, include_build_reqs) } : n \in S }
  IN IF T = S THEN S ELSE Strict(LAMBDA X : Closure(pl, X, include_build_reqs), T)

\* variant: the extra dependencies are not added to the root
RootDeps_WithoutExtra(root_version, extra) ==
  <<Pkg(RootName, root_version)>>

\* root.add_dependency(...): the synthetic root's pins, as [name, version]
RootDeps(root_version, extra) ==
  <<Pkg(RootName, root_version)>> \o extra

\* the resolutions solver._solve() may return for a synthetic root with the
\* pins `deps`: the packages reachable from the pins, one version each, the
\* pinned ones at a pinned version, listed in the oracle's order
Resolutions(pl, deps, include_build_reqs, order) ==
  LET S == Closure(pl, { deps[i].name : i \in 1..Len(deps) }, include_build_reqs)
      names == Restrict(order, S)
      ok(ver) == \A i \in 1..Len(deps) : ver[deps[i].name] = deps[i].version
      choices == { ver \in [S -> 1..MaxVersion] :
                     (\A n \in S : ver[n] \in pl.versions[n]) /\ ok(ver) }
  IN { [ i \in 1..Len(names) |-> Pkg(names[i], ver[names[i]]) ] : ver \in choices }

ResNames(res) == { res[i].name : i \in 1..Len(res) }

\* pkg_map: name -> the resolved package
PkgMap(res) == [ n \in ResNames(res) |-> res[IndexOf(n, [ i \in 1..Len(res) |-> res[i].name ])] ]

\* ------------------------------------------------------------------------
\* Build._resolve_deps, the pure parts
\* ------------------------------------------------------------------------
\* variant: the marker test is inverted
RuntimeDeps_InvertedMarker(pl, n) == { r.name : r \in { q \in pl.requires[n] : ~q.marker } }

\* lines 288-292: the runtime dependency set of a resolved package
RuntimeDeps(pl, n) == { r.name : r \in { q \in pl.requires[n] : q.marker } }

\* variant: a requirement of a package on itself is kept
BuildDeps_WithSelf(pl, n) ==
  { r.name : r \in { q \in pl.requires[n] \cup pl.build_requires[n] :
                       q.activated /\ q.marker } }

\* lines 328-339: the build-time dependency set of a resolved package
BuildDeps(pl, n) ==
  { r.name : r \in { q \in pl.requires[n] \cup pl.build_requires[n] :
                       q.activated /\ q.marker /\ q.name # n } }

\* lines 283-293: graph[dep_package.name] = deps for each resolved package
RuntimeGraph(pl, res, horder) ==
  [ i \in 1..Len(res) |->
      [node |-> res[i].name, preds |-> Restrict(horder, RuntimeDeps(pl, res[i].name))] ]

\* lines 323-340
BuildGraph(pl, res, horder) ==
  [ i \in 1..Len(res) |->
      [node |-> res[i].name, preds |-> Restrict(horder, BuildDeps(pl, res[i].name))] ]

\* variant: a sorted name without a resolved package is passed over
SortedPackagesOf_SkipUnknown(so, pkg_map) ==
  IF ~so.ok THEN [err |-> "CycleError", cycle |-> so.cycle, pkgs |-> <<>>]
     ELSE LET known == SelectSeq(so.order, LAMBDA n : n \in DOMAIN pkg_map)
          IN [err |-> "", cycle |-> <<>>,
              pkgs |-> [ i \in 1..Len(known) |-> pkg_map[known[i]] ]]

\* [pkg_map[pn] for pn in sorter.static_order()]: the sorted packages, or
\* the exception the comprehension raises
SortedPackagesOf(so, pkg_map) ==
  IF ~so.ok THEN [err |-> "CycleError", cycle |-> so.cycle, pkgs |-> <<>>]
     ELSE IF \E i \in 1..Len(so.order) : so.order[i] \notin DOMAIN pkg_map
     THEN [err |-> "KeyError", cycle |-> <<>>, pkgs |-> <<>>]
     ELSE [err |-> "", cycle |-> <<>>,
           pkgs |-> [ i \in 1..Len(so.order) |-> pkg_map[so.order[i]] ]]

SortedPackages(G, pkg_map) ==
  Strict(LAMBDA so : SortedPackagesOf(so, pkg_map), StaticOrder(G))

\* variant: the edge is left in the graph
WithoutPred_Nothing(G, node, dep) == G

\* graph[node].remove(dep): the entry's set without dep
WithoutPred(G, node, dep) ==
  [ i \in 1..Len(G) |->
      IF G[i].node = node
      THEN [G[i] EXCEPT !.preds = SelectSeq(G[i].preds, LAMBDA x : x # dep)]
      ELSE G[i] ]

\* cyclic_runtime_deps[pkg].append(dep) on the defaultdict(list)
CrdAppend(crd, pkg, dep) ==
  IF \E i \in 1..Len(crd) : crd[i].pkg = pkg
  THEN [ i \in 1..Len(crd) |->
           IF crd[i].pkg = pkg THEN [crd[i] EXCEPT !.deps = Append(crd[i].deps, dep)]
           ELSE crd[i] ]
  ELSE Append(crd, [pkg |-> pkg, deps |-> <<dep>>])

\* variant: after the swap the declaration is not looked at again
CycleRoles_SwapUnchecked(pl, pkg_map, cycle) ==
  LET dep == pkg_map[cycle[Len(cycle)]]
      pkg_with_dep == pkg_map[cycle[Len(cycle) - 1]]
  IN IF dep.name \in pl.cyclic[pkg_with_dep.name]
     THEN [ok |-> TRUE, dep |-> dep, pkg_with_dep |-> pkg_with_dep]
     ELSE [ok |-> TRUE, dep |-> pkg_with_dep, pkg_with_dep |-> dep]

\* lines 362-368: which of the cycle's last two packages is taken as the
\* late-injected dependency and which as the package tolerating it;
\* ok is FALSE when neither declares the other (the bare raise of line 368)
CycleRoles(pl, pkg_map, cycle) ==
  LET dep == pkg_map[cycle[Len(cycle)]]
      pkg_with_dep == pkg_map[cycle[Len(cycle) - 1]]
  IN IF dep.name \in pl.cyclic[pkg_with_dep.name]
     THEN [ok |-> TRUE, dep |-> dep, pkg_with_dep |-> pkg_with_dep]
     ELSE IF pkg_with_dep.name \in pl.cyclic[dep.name]
     THEN [ok |-> TRUE, dep |-> pkg_with_dep, pkg_with_dep |-> dep]
     ELSE [ok |-> FALSE, dep |-> pkg_with_dep, pkg_with_dep |-> dep]

\* variant: the length of the cycle is not looked at
CycleRejected_AnyLength(cycle, last_cycle) == cycle = last_cycle

\* variant: the repeated first node is not counted
CycleRejected_OverFour(cycle, last_cycle) == Len(cycle) > 4 \/ cycle = last_cycle

\* line 359: the cycles the loop gives up on
CycleRejected(cycle, last_cycle) == Len(cycle) > 3 \/ cycle = last_cycle

\* lines 352-375, one iteration of the while loop on the loop's state
\* st = [graph, crd, last_cycle, current_cycle].  status is "sorted" (the
\* else: break), "retry" (an edge was removed) or "error" (an exception
\* leaves the loop)
CycleIterationOn(pl, pkg_map, st, sp) ==
  LET roles == CycleRoles(pl, pkg_map, sp.cycle)
      base == [status |-> "error", err |-> sp.err, graph |-> st.graph, crd |-> st.crd,
               last_cycle |-> st.last_cycle, current_cycle |-> st.current_cycle,
               build_pkgs |-> <<>>, cycle |-> sp.cycle, removed |-> <<>>]
  IN IF sp.err = "" THEN [base EXCEPT !.status = "sorted", !.build_pkgs = sp.pkgs]
     ELSE IF sp.err # "CycleError" THEN base
     ELSE IF CycleRejected(sp.cycle, st.last_cycle) THEN base
     ELSE IF ~roles.ok THEN base
     ELSE IF ~InSeq(roles.dep.name, PredsOf(st.graph, roles.pkg_with_dep.name))
     THEN [base EXCEPT !.err = "KeyError"]
     ELSE [base EXCEPT
             !.status = "retry", !.err = "",
             !.last_cycle = st.current_cycle,
             !.current_cycle = sp.cycle,
             !.crd = CrdAppend(st.crd, roles.pkg_with_dep, roles.dep),
             !.graph = WithoutPred(st.graph, roles.pkg_with_dep.name, roles.dep.name),
             !.removed = <<roles.pkg_with_dep.name, roles.dep.name>>]

CycleIteration(pl, pkg_map, st) ==
  Strict(LAMBDA sp : CycleIterationOn(pl, pkg_map, st, sp), SortedPackages(st.graph, pkg_map))

\* variant: the late-injected dependencies are appended to the list
InsertAfterFirst_AtEnd(pkgs, pkg, cr_deps) == pkgs \o cr_deps

\* build_pkgs[i + 1 : i + 1] = cr_deps at the first i with
\* build_pkgs[i] == pkg (lines 378-381)
InsertAfterFirst(pkgs, pkg, cr_deps) ==
  LET i == IndexOf(pkg, pkgs)
  IN IF i = 0 THEN pkgs
     ELSE SubSeq(pkgs, 1, i) \o cr_deps \o SubSeq(pkgs, i + 1, Len(pkgs))

\* lines 377-381: every package with late-injected dependencies gets them
\* inserted right after itself
RECURSIVE Splice(_, _)
Splice(pkgs, crd) ==
  IF crd = <<>> THEN pkgs
  ELSE Strict(LAMBDA x : Splice(x, Tail(crd)),
              InsertAfterFirst(pkgs, Head(crd).pkg, Head(crd).deps))

\* the while loop run to its end
RECURSIVE CycleLoop(_, _, _)
CycleLoop(pl, pkg_map, st) ==
  Strict(LAMBDA r :
           IF r.status = "retry"
           THEN CycleLoop(pl, pkg_map, [graph |-> r.graph, crd |-> r.crd,
                                        last_cycle |-> r.last_cycle,
                                        current_cycle |-> r.current_cycle])
           ELSE r,
         CycleIteration(pl, pkg_map, st))

\* _resolve_deps as a whole, for one answer of the oracle to each of its two
\* solves: [err, packages, build_pkgs]
ResolveDepsResult(pl, rt_res, build_res, horder) ==
  LET rt == SortedPackages(RuntimeGraph(pl, rt_res, horder), PkgMap(rt_res))
      lp == CycleLoop(pl, PkgMap(build_res),
                      [graph |-> BuildGraph(pl, build_res, horder), crd |-> <<>>,
                       last_cycle |-> <<>>, current_cycle |-> <<>>])
  IN IF rt.err # "" THEN [err |-> rt.err, packages |-> <<>>, build_pkgs |-> <<>>]
     ELSE IF lp.status = "error" THEN [err |-> lp.err, packages |-> <<>>, build_pkgs |-> <<>>]
     ELSE [err |-> "", packages |-> rt.pkgs, build_pkgs |-> Splice(lp.build_pkgs, lp.crd)]

\* ------------------------------------------------------------------------
\* Build._check_dep_consistency (lines 385-399)
\* ------------------------------------------------------------------------
\* build_dep_index = {pkg.name: pkg for pkg in build_pkgs}: the last package
\* of each name wins
BuildDepIndex(bpkgs) ==
  [ n \in ResNames(bpkgs) |->
      bpkgs[CHOOSE i \in 1..Len(bpkgs) :
              bpkgs[i].name = n /\ \A j \in (i+1)..Len(bpkgs) : bpkgs[j].name # n] ]

\* variant: the versions are never compared
CheckDepConsistency_NoCompare(pkgs, bpkgs) == <<>>

\* variant: the constraint carries the version of the install list
CheckDepConsistency_RuntimeVersion(pkgs, bpkgs) ==
  LET index == BuildDepIndex(bpkgs)
      differs(p) == p.name \in DOMAIN index /\ index[p.name].version # p.version
  IN SelectSeq(pkgs, differs)

CheckDepConsistency(pkgs, bpkgs) ==
  LET index == BuildDepIndex(bpkgs)
      differs(p) == p.name \in DOMAIN index /\ index[p.name].version # p.version
      bad == SelectSeq(pkgs, differs)
  IN [ i \in 1..Len(bad) |-> Pkg(index[bad[i].name].name, index[bad[i].name].version) ]

\* ------------------------------------------------------------------------
\* State
\* ------------------------------------------------------------------------
VARIABLES
  pool,            \* the package pool (requirements, declarations, versions)
  resOrder,        \* the order in which the oracle lists a resolution
  hashOrder,       \* the iteration order of a set of names in this process
  pc,              \* position in _resolve_deps
  error,           \* the exception that left _resolve_deps ("" for none)
  extra_deps,      \* _resolve_deps' extra_deps argument
  packages,        \* install order (handle's / _resolve_deps' packages)
  build_pkgs,      \* build order (handle's / _resolve_deps' build_pkgs)
  pkg_map,         \* pkg_map of the pass being processed
  rt_graph,        \* the runtime graph of lines 283-293
  graph,           \* the build graph of lines 323-373
  cyclic_runtime_deps,
  last_cycle,
  current_cycle,
  all_requires_include_build_reqs,   \* mpkg_base's process-wide flag
  removed,         \* history: the edges <<pkg, dep>> the loop removed, in order
  sorted_pkgs,     \* history: build_pkgs as the sort returned it (before line 377)
  cycles,          \* history: the cycles CycleError reported to the loop, in order
  hpc,             \* position in Build.handle
  reresolve_deps,  \* handle's reresolve_deps
  calls,           \* history: the extra_deps of each _resolve_deps call made
  first_check,     \* history: what the check of line 187 returned
  reported,        \* the mismatches written to the error line (line 199)
  built            \* history: the (deps, build_deps) target.build was called with

VARIABLES
  fs,            \* the image: path -> entry
  host,          \* the build host's own files (outside image_root)
  files,         \* the listing handed to _fixup_binaries
  shlib_refs,    \* target.get_shlib_refs per binary: [shlibs, rpaths]
  fpc,           \* position in _fixup_binaries
  ferror,        \* the exception that left it ("" for none)
  bin_paths,
  binaries,
  refs,
  to_remove,
  used_shlibs,
  ref_pos,       \* <<i, j>>: the reference refs[i].shlibs[j] is next
  fs0,           \* history: the image as _fixup_binaries found it
  matched,       \* history: one record per reference handled
  unlinked_early \* history: real files of fs0 gone before the cleanup started

fixupVars == <<fs, host, files, shlib_refs, fpc, ferror, bin_paths, binaries, refs,
               to_remove, used_shlibs, ref_pos, fs0, matched, unlinked_early>>

resolveVars == <<pc, error, extra_deps, pkg_map, rt_graph, graph,
                 cyclic_runtime_deps, last_cycle, current_cycle,
                 all_requires_include_build_reqs, removed, sorted_pkgs, cycles>>
handleVars == <<hpc, reresolve_deps, calls, first_check, reported, built>>
inputVars == <<pool, resOrder, hashOrder>>

VARIABLES
  xpc,                \* position in Provider.incompatibilities_for
  xerror,             \* the exception that left it ("" for none)
  include_build_reqs, \* Provider.include_build_reqs
  breqs,              \* the build requirements handed to extra_requirements
  has_group,          \* pkg.has_dependency_group(MAIN_GROUP)
  dependencies,       \* the main group's _dependencies
  orig_reqs,          \* extra_requirements' local orig_reqs
  entry               \* history: [has_group, dependencies] on entry

groupVars == <<xpc, xerror, include_build_reqs, breqs, has_group, dependencies,
               orig_reqs, entry>>

\* no package is being handed to the solver
NoContext ==
  /\ xpc = "none"
  /\ xerror = ""
  /\ include_build_reqs = FALSE
  /\ breqs = <<>>
  /\ has_group = FALSE
  /\ dependencies = <<>>
  /\ orig_reqs = <<>>
  /\ entry = <<>>

NoGraph == <<>>
NoMap == [ n \in {} |-> Pkg(n, 0) ]

InitResolveFrame ==
  /\ pc = "start"
  /\ error = ""
  /\ extra_deps = <<>>
  /\ packages = <<>>
  /\ build_pkgs = <<>>
  /\ pkg_map = NoMap
  /\ rt_graph = NoGraph
  /\ graph = NoGraph
  /\ cyclic_runtime_deps = <<>>
  /\ last_cycle = <<>>
  /\ current_cycle = <<>>
  /\ all_requires_include_build_reqs = FALSE
  /\ removed = <<>>
  /\ sorted_pkgs = <<>>
  /\ cycles = <<>>

InitHandleFrame ==
  /\ hpc = "idle"
  /\ reresolve_deps = <<>>
  /\ calls = <<>>
  /\ first_check = <<>>
  /\ reported = <<>>
  /\ built = <<>>


\* no image is being processed
NoImage ==
  /\ fs = <<>>
  /\ host = {}
  /\ files = <<>>
  /\ shlib_refs = <<>>
  /\ fpc = "idle"
  /\ ferror = ""
  /\ bin_paths = <<>>
  /\ binaries = {}
  /\ refs = <<>>
  /\ to_remove = {}
  /\ used_shlibs = {}
  /\ ref_pos = <<1, 1>>
  /\ fs0 = <<>>
  /\ matched = <<>>
  /\ unlinked_early = {}

RootVersion == 1

\* ------------------------------------------------------------------------
\* Build._resolve_deps, step by step
\* ------------------------------------------------------------------------
\* lines 248-297: the runtime solve, the runtime graph and its sort
RuntimeSolve ==
  /\ pc = "start"
  /\ \/ \E res \in Resolutions(pool, RootDeps(RootVersion, extra_deps), FALSE, resOrder) :
          LET G == RuntimeGraph(pool, res, hashOrder)
              sp == SortedPackages(G, PkgMap(res))
          IN /\ rt_graph' = G
             /\ pkg_map' = PkgMap(res)
             /\ IF sp.err = ""
                THEN /\ packages' = sp.pkgs
                     /\ pc' = "runtime_done"
                     /\ error' = ""
                ELSE /\ packages' = <<>>
                     /\ pc' = "failed"
                     /\ error' = sp.err
     \/ \* solver._solve() raises: the oracle found no solution
        /\ pc' = "failed"
        /\ error' = "SolverProblemError"
        /\ UNCHANGED <<rt_graph, pkg_map, packages>>
  /\ UNCHANGED <<extra_deps, build_pkgs, graph, cyclic_runtime_deps, last_cycle,
                 current_cycle, all_requires_include_build_reqs, removed, sorted_pkgs,
                 cycles>>
  /\ UNCHANGED <<handleVars, inputVars, groupVars, fixupVars>>

\* variant: the flag is lowered after the solve, not in a finally clause
FlagAfterSolve_NoFinally(raised) == raised

\* lines 317-320: try: solver._solve() finally: the flag is lowered, whether
\* the solve raised or not
FlagAfterSolve(raised) == FALSE

\* lines 299-316: the build root and provider are set up and the flag raised
BeginBuildSolve ==
  /\ pc = "runtime_done"
  /\ pc' = "build_solving"
  /\ all_requires_include_build_reqs' = TRUE
  /\ UNCHANGED <<error, extra_deps, packages, build_pkgs, pkg_map, rt_graph, graph,
                 cyclic_runtime_deps, last_cycle, current_cycle, removed, sorted_pkgs,
                 cycles>>
  /\ UNCHANGED <<handleVars, inputVars, groupVars, fixupVars>>

\* lines 317-350: the build-time solve returns or raises, the finally clause
\* lowers the flag, the build graph is made and the loop's state set up
EndBuildSolve ==
  /\ pc = "build_solving"
  /\ \/ \E res \in Resolutions(pool, RootDeps(RootVersion, <<>>), TRUE, resOrder) :
          /\ all_requires_include_build_reqs' = FlagAfterSolve(FALSE)
          /\ pkg_map' = PkgMap(res)
          /\ graph' = BuildGraph(pool, res, hashOrder)
          /\ pc' = "loop"
          /\ error' = ""
     \/ /\ all_requires_include_build_reqs' = FlagAfterSolve(TRUE)
        /\ pc' = "failed"
        /\ error' = "SolverProblemError"
        /\ UNCHANGED <<pkg_map, graph>>
  /\ cyclic_runtime_deps' = <<>>
  /\ last_cycle' = <<>>
  /\ current_cycle' = <<>>
  /\ UNCHANGED <<extra_deps, packages, build_pkgs, rt_graph, removed, sorted_pkgs, cycles>>
  /\ UNCHANGED <<handleVars, inputVars, groupVars, fixupVars>>

LoopState ==
  [graph |-> graph, crd |-> cyclic_runtime_deps,
   last_cycle |-> last_cycle, current_cycle |-> current_cycle]

\* lines 352-375: one iteration of the cycle-breaking loop
CycleIter ==
  /\ pc = "loop"
  /\ \E r \in {CycleIteration(pool, pkg_map, LoopState)} :
        /\ graph' = r.graph
        /\ cyclic_runtime_deps' = r.crd
        /\ last_cycle' = r.last_cycle
        /\ current_cycle' = r.current_cycle
        /\ error' = r.err
        /\ removed' = IF r.status = "retry" THEN Append(removed, r.removed) ELSE removed
        /\ sorted_pkgs' = IF r.status = "sorted" THEN r.build_pkgs ELSE sorted_pkgs
        /\ cycles' = IF r.cycle # <<>> THEN Append(cycles, r.cycle) ELSE cycles
        /\ build_pkgs' = IF r.status = "sorted" THEN r.build_pkgs ELSE build_pkgs
        /\ pc' = CASE r.status = "sorted" -> "splice"
                   [] r.status = "retry" -> "loop"
                   [] OTHER -> "failed"
  /\ UNCHANGED <<extra_deps, packages, pkg_map, rt_graph, all_requires_include_build_reqs>>
  /\ UNCHANGED <<handleVars, inputVars, groupVars, fixupVars>>

\* lines 377-383: the late-injected dependencies are spliced in and the two
\* orders returned
SpliceReturn ==
  /\ pc = "splice"
  /\ build_pkgs' = Splice(build_pkgs, cyclic_runtime_deps)
  /\ pc' = "returned"
  /\ UNCHANGED <<error, extra_deps, packages, pkg_map, rt_graph, graph,
                 cyclic_runtime_deps, last_cycle, current_cycle,
                 all_requires_include_build_reqs, removed, sorted_pkgs, cycles>>
  /\ UNCHANGED <<handleVars, inputVars, groupVars, fixupVars>>

\* ------------------------------------------------------------------------
\* One call of _resolve_deps over the pools of the model
\* ------------------------------------------------------------------------
SingleVersion == [ n \in Names |-> {1} ]

Pools ==
  { MakePool(reqs, decls, SingleVersion) :
      reqs \in { S \in SUBSET CandReqs : Cardinality(S) <= MaxReqs },
      decls \in SUBSET CandCyclic }

InitResolve ==
  /\ pool \in Pools
  /\ resOrder \in Orders
  /\ hashOrder \in Orders
  /\ InitResolveFrame
  /\ InitHandleFrame
  /\ NoContext
  /\ NoImage

NextResolve ==
  \/ RuntimeSolve
  \/ BeginBuildSolve
  \/ EndBuildSolve
  \/ CycleIter
  \/ SpliceReturn

vars == <<pool, resOrder, hashOrder, pc, error, extra_deps, packages, build_pkgs,
          pkg_map, rt_graph, graph, cyclic_runtime_deps, last_cycle, current_cycle,
          all_requires_include_build_reqs, removed, sorted_pkgs, cycles,
          hpc, reresolve_deps, calls, first_check, reported, built, fs, host, files, shlib_refs,
          fpc, ferror, bin_paths, binaries, refs, to_remove, used_shlibs, ref_pos,
          fs0, matched, unlinked_early, xpc, xerror, include_build_reqs, breqs,
          has_group, dependencies, orig_reqs, entry>>

SpecResolve == InitResolve /\ [][NextResolve]_vars

\* ------------------------------------------------------------------------
\* One call of _resolve_deps over pools made of 2-node cycles: a with b,
\* a with d, b with c, each package free to declare its partner
\* ------------------------------------------------------------------------
CycleCandReqs ==
  { PoolReq("a", "run",   Req("b", TRUE, TRUE)),
    PoolReq("b", "build", Req("a", TRUE, TRUE)),
    PoolReq("a", "run",   Req("d", TRUE, TRUE)),
    PoolReq("d", "build", Req("a", TRUE, TRUE)),
    PoolReq("b", "run",   Req("c", TRUE, TRUE)),
    PoolReq("c", "build", Req("b", TRUE, TRUE)) }

CycleCandCyclic ==
  { <<"a", "b">>, <<"b", "a">>, <<"a", "d">>, <<"b", "c">>, <<"c", "b">> }

CyclePools ==
  { MakePool(reqs, decls, SingleVersion) :
      reqs \in SUBSET CycleCandReqs, decls \in SUBSET CycleCandCyclic }

InitCycles ==
  /\ pool \in CyclePools
  /\ resOrder \in Orders
  /\ hashOrder \in Orders
  /\ InitResolveFrame
  /\ InitHandleFrame
  /\ NoContext
  /\ NoImage

SpecCycles == InitCycles /\ [][NextResolve]_vars

\* the same, with the while loop running on: an iteration that can be
\* executed is executed eventually
SpecCyclesFair == SpecCycles /\ WF_vars(CycleIter)

\* ------------------------------------------------------------------------
\* One call of _resolve_deps over pools around the 4-node cycle
\* a -> b -> c -> d -> a, with the 2-node cycles a with b and b with c that
\* share an edge with it
\* ------------------------------------------------------------------------
LongCycleCandReqs ==
  { PoolReq("a", "run",   Req("b", TRUE, TRUE)),
    PoolReq("b", "run",   Req("c", TRUE, TRUE)),
    PoolReq("c", "run",   Req("d", TRUE, TRUE)),
    PoolReq("d", "build", Req("a", TRUE, TRUE)),
    PoolReq("b", "build", Req("a", TRUE, TRUE)),
    PoolReq("c", "build", Req("b", TRUE, TRUE)) }

LongCycleCandCyclic ==
  { <<"a", "b">>, <<"b", "a">>, <<"b", "c">>, <<"c", "b">>, <<"d", "a">> }

LongCyclePools ==
  { MakePool(reqs, decls, SingleVersion) :
      reqs \in SUBSET LongCycleCandReqs, decls \in SUBSET LongCycleCandCyclic }

InitLongCycle ==
  /\ pool \in LongCyclePools
  /\ resOrder \in Orders
  /\ hashOrder \in Orders
  /\ InitResolveFrame
  /\ InitHandleFrame
  /\ NoContext
  /\ NoImage

SpecLongCycle == InitLongCycle /\ [][NextResolve]_vars

\* ------------------------------------------------------------------------
\* The package image and Build._fixup_binaries
\* (src/metapkg/targets/generic/build.py)
\* ------------------------------------------------------------------------
\* A path is a sequence of components.  An entry of the image is absent, a
\* regular file or a symbolic link; a link's target is what readlink()
\* returns: absolute or not, and its components.
Absent == [kind |-> "absent"]
File(isbin, dyn, content) ==
  [kind |-> "file", binary |-> isbin, dyn |-> dyn, content |-> content]
Link(isabs, parts) == [kind |-> "link", abs |-> isabs, parts |-> parts]

\* where a path lives: below image_root, or on the build host itself
ImgP(p) == [root |-> "image", path |-> p]
HostP(p) == [root |-> "host", path |-> p]

Parent(p) == SubSeq(p, 1, Len(p) - 1)
Basename(p) == p[Len(p)]

\* what Path.resolve() does to the components: ".." takes the parent
RECURSIVE Normalize(_, _)
Normalize(acc, parts) ==
  IF parts = <<>> THEN acc
  ELSE IF Head(parts) = ".."
  THEN Strict(LAMBDA x : Normalize(x, Tail(parts)), IF acc = <<>> THEN acc ELSE Parent(acc))
  ELSE Strict(LAMBDA x : Normalize(x, Tail(parts)), Append(acc, Head(parts)))

\* the entry at an image path (paths outside the listing are absent)
EntryAt(img, p) == IF p \in DOMAIN img THEN img[p] ELSE Absent

IsSymlink(img, p) == EntryAt(img, p).kind = "link"

\* (base / target).resolve() for a link found at image path p: symbolic
\* links are followed to the end; an absolute target names a host path
RECURSIVE ResolveLink(_, _, _)
ResolveLink(img, p, fuel) ==
  LET e == EntryAt(img, p)
  IN IF e.kind # "link" \/ fuel = 0 THEN ImgP(p)
     ELSE IF e.abs THEN HostP(e.parts)
     ELSE Strict(LAMBDA q : ResolveLink(img, q, fuel - 1),
                 Normalize(<<>>, Parent(p) \o e.parts))

\* lines 466-471: the install path a symlink of the listing points at, one
\* level followed, components joined as pathlib joins them (".." is kept)
TargetInstPath(img, p) ==
  LET e == img[p]
  IN IF e.abs THEN e.parts ELSE Parent(p) \o e.parts

\* target.is_allowed_system_shlib: the libraries the target lets a binary
\* take from the system
AllowedSystemShlibs == {"libc.so.6"}

\* variant: the allow-list is not consulted
IsAllowedSystemShlib_Never(shlib) == FALSE

IsAllowedSystemShlib(shlib) == shlib \in AllowedSystemShlibs

\* lines 443-460, 472: the non-symlink files of the listing the target
\* reports as binary code
ScanBinaries(img, flist) ==
  { p \in Range(flist) : img[p].kind = "file" /\ img[p].binary }

\* lines 452 and 465-473: bin_paths, basename -> the install paths
\* registered under it (binaries, and symlinks pointing at a binary)
ScanBinPaths(img, flist) ==
  LET bins == ScanBinaries(img, flist)
      links == { p \in Range(flist) : img[p].kind = "link" /\ TargetInstPath(img, p) \in bins }
  IN [ name \in { Basename(p) : p \in bins \cup links } |->
         { p \in bins \cup links : Basename(p) = name } ]

\* lines 456-460: refs, in the listing's order: for each dynamically linked
\* binary what target.get_shlib_refs reports for it
ScanRefs(img, flist, shrefs) ==
  LET dyn == SelectSeq(flist, LAMBDA p : img[p].kind = "file" /\ img[p].binary /\ img[p].dyn)
  IN [ i \in 1..Len(dyn) |->
         [binary |-> dyn[i], shlibs |-> shrefs[dyn[i]].shlibs, rpaths |-> shrefs[dyn[i]].rpaths] ]

\* line 484: bin_paths.get(shlib, set())
Bundled(bp, shlib) == IF shlib \in DOMAIN bp THEN bp[shlib] ELSE {}

\* lines 485-487: (rpath / shlib).resolve() for each rpath in turn; the
\* index of the first rpath whose candidate is bundled, 0 when none is
FirstMatch(bp, shlib, rpaths) ==
  LET hit(i) == Normalize(<<>>, Append(rpaths[i], shlib)) \in Bundled(bp, shlib)
  IN IF \E i \in 1..Len(rpaths) : hit(i)
     THEN CHOOSE i \in 1..Len(rpaths) : hit(i) /\ \A j \in 1..(i-1) : ~hit(j)
     ELSE 0

\* lines 504-508: the real file a matched symlink stands for
RealShlibPath(img, p) ==
  IF img[p].abs THEN HostP(img[p].parts) ELSE ResolveLink(img, p, Cardinality(DOMAIN img))

\* the file shutil.copy2 would read at a full path (Absent when missing)
SourceEntry(img, hst, fp) ==
  IF fp.root = "host"
  THEN (IF fp.path \in hst THEN File(TRUE, FALSE, HostP(fp.path)) ELSE Absent)
  ELSE EntryAt(img, fp.path)

\* variant: one message for both cases
LinkageError_Single(rpaths) == "not_in_rpath"

\* lines 515-527: which of the two errors is raised when no rpath entry
\* holds the library
LinkageError(rpaths) == IF rpaths # <<>> THEN "not_in_rpath" ELSE "no_rpath"

\* lines 480-527 for one reference of one binary: the outcome on
\* [fs, used, to_remove], with err set when an exception is raised
MatchReference(img, hst, bp, used, torm, shlib, rpaths) ==
  LET base == [fs |-> img, used |-> used, to_remove |-> torm, err |-> "",
               provider |-> <<>>, was_link |-> FALSE, real |-> ImgP(<<>>)]
      i == FirstMatch(bp, shlib, rpaths)
      p == Normalize(<<>>, Append(rpaths[i], shlib))
      real == RealShlibPath(img, p)
      src == SourceEntry(img, hst, real)
  IN IF IsAllowedSystemShlib(shlib) THEN base
     ELSE IF i = 0
     THEN [base EXCEPT !.err = LinkageError(rpaths)]
     ELSE IF ~IsSymlink(img, p)
     THEN [base EXCEPT !.used = used \cup {ImgP(p)}, !.provider = p]
     ELSE IF src.kind # "file"
     THEN \* os.unlink succeeded, shutil.copy2 raised
          [base EXCEPT !.fs = [img EXCEPT ![p] = Absent],
                       !.used = used \cup {ImgP(p)}, !.provider = p,
                       !.was_link = TRUE, !.real = real,
                       !.err = "FileNotFoundError"]
     ELSE [base EXCEPT !.fs = [img EXCEPT ![p] = src],
                       !.used = used \cup {ImgP(p)}, !.provider = p,
                       !.was_link = TRUE, !.real = real,
                       !.to_remove = torm \cup {real}]

\* line 532-537: does the sibling q, a symlink, resolve to the full path fp
PointsAt(img, q, fp) ==
  /\ img[q].kind = "link"
  /\ (IF img[q].abs THEN HostP(img[q].parts)
      ELSE ResolveLink(img, q, Cardinality(DOMAIN img))) = fp

\* variant: no symlink is unlinked
RemoveSoSymlinks_Nothing(img, fp, siblings) == img

\* lines 529-538: _remove_so_symlinks(path): the entries of path's directory
\* are visited in the order `siblings` lists them, and each symlink that
\* resolves to path at that moment is unlinked (the build host's
\* directories hold no symlinks to the paths of the model)
RECURSIVE RemoveSoSymlinks(_, _, _)
RemoveSoSymlinks(img, fp, siblings) ==
  IF siblings = <<>> \/ fp.root # "image" THEN img
  ELSE LET q == Head(siblings)
       IN IF Parent(q) = Parent(fp.path) /\ PointsAt(img, q, fp)
          THEN Strict(LAMBDA x : RemoveSoSymlinks(x, fp, Tail(siblings)),
                      [img EXCEPT ![q] = Absent])
          ELSE RemoveSoSymlinks(img, fp, Tail(siblings))

\* variant: the scheduled files are never unlinked
RemoveUnused_Nothing(img, hst, order, siblings) == [fs |-> img, host |-> hst]

\* lines 542-544 for the paths of `order` in turn: on [fs, host]
RECURSIVE RemoveUnused(_, _, _, _)
RemoveUnused(img, hst, order, siblings) ==
  IF order = <<>> THEN [fs |-> img, host |-> hst]
  ELSE LET fp == Head(order)
       IN Strict(LAMBDA img1 :
                   IF fp.root = "host"
                   THEN RemoveUnused(img1, hst \ {fp.path}, Tail(order), siblings)
                   ELSE Strict(LAMBDA img2 : RemoveUnused(img2, hst, Tail(order), siblings),
                               [img1 EXCEPT ![fp.path] = Absent]),
                 RemoveSoSymlinks(img, fp, siblings))

\* variant: the symlinks to used libraries are left in place
RemoveLinksToUsed_Nothing(img, order, siblings) == img

\* lines 546-547
RECURSIVE RemoveLinksToUsed(_, _, _)
RemoveLinksToUsed(img, order, siblings) ==
  IF order = <<>> THEN img
  ELSE Strict(LAMBDA x : RemoveLinksToUsed(x, Tail(order), siblings),
              RemoveSoSymlinks(img, Head(order), siblings))

\* variant: used libraries are not spared
Unused_AllScheduled(torm, used) == torm

\* variant: the used candidates are the ones deleted
Unused_OnlyUsed(torm, used) == torm \cap used

\* line 542: the removal candidates that are deleted
Unused(torm, used) == torm \ used

\* the orders in which a set may be iterated
SeqsOf(S) ==
  { sq \in [1..Cardinality(S) -> S] : \A i, j \in 1..Cardinality(S) : sq[i] = sq[j] => i = j }

\* lines 540-547 as a whole, for one iteration order of each set and of
\* the directory entries
CleanupResult(img, hst, torm, used, rmOrder, usedOrder, siblings) ==
  LET r == RemoveUnused(img, hst, rmOrder, siblings)
  IN [fs |-> RemoveLinksToUsed(r.fs, usedOrder, siblings), host |-> r.host]

\* lines 431-476: the listing is scanned, binaries and symlinks indexed
FixupScan ==
  /\ fpc = "scan"
  /\ binaries' = ScanBinaries(fs, files)
  /\ bin_paths' = ScanBinPaths(fs, files)
  /\ refs' = ScanRefs(fs, files, shlib_refs)
  /\ to_remove' = {}
  /\ used_shlibs' = {}
  /\ ref_pos' = <<1, 1>>
  /\ fpc' = "match"
  /\ UNCHANGED <<fs, host, files, shlib_refs, ferror, fs0, matched, unlinked_early>>
  /\ UNCHANGED <<resolveVars, packages, build_pkgs, handleVars, inputVars, groupVars>>

\* the position after <<i, j>> in the two nested loops of lines 479-480
NextRefPos(rf, pos) ==
  IF pos[2] < Len(rf[pos[1]].shlibs) THEN <<pos[1], pos[2] + 1>> ELSE <<pos[1] + 1, 1>>

\* lines 479-480: a binary without references is passed over
FixupSkipBinary ==
  /\ fpc = "match"
  /\ ref_pos[1] <= Len(refs)
  /\ refs[ref_pos[1]].shlibs = <<>>
  /\ ref_pos' = <<ref_pos[1] + 1, 1>>
  /\ UNCHANGED <<fs, host, files, shlib_refs, fpc, ferror, bin_paths, binaries, refs,
                 to_remove, used_shlibs, fs0, matched, unlinked_early>>
  /\ UNCHANGED <<resolveVars, packages, build_pkgs, handleVars, inputVars, groupVars>>

RealFilesGone(img0, img) ==
  { p \in DOMAIN img0 : img0[p].kind = "file" /\ img[p].kind # "file" }

\* lines 480-527: one reference of one binary is checked
FixupMatch ==
  /\ fpc = "match"
  /\ ref_pos[1] <= Len(refs)
  /\ refs[ref_pos[1]].shlibs # <<>>
  /\ LET ref == refs[ref_pos[1]]
         shlib == ref.shlibs[ref_pos[2]]
         r == MatchReference(fs, host, bin_paths, used_shlibs, to_remove, shlib, ref.rpaths)
     IN /\ fs' = r.fs
        /\ used_shlibs' = r.used
        /\ to_remove' = r.to_remove
        /\ ferror' = r.err
        /\ fpc' = IF r.err = "" THEN "match" ELSE "failed"
        /\ ref_pos' = IF r.err = "" THEN NextRefPos(refs, ref_pos) ELSE ref_pos
        /\ matched' = Append(matched,
                             [binary |-> ref.binary, shlib |-> shlib, rpaths |-> ref.rpaths,
                              provider |-> r.provider, was_link |-> r.was_link,
                              real |-> r.real, err |-> r.err])
        /\ unlinked_early' = unlinked_early \cup RealFilesGone(fs0, r.fs)
  /\ UNCHANGED <<host, files, shlib_refs, bin_paths, binaries, refs, fs0>>
  /\ UNCHANGED <<resolveVars, packages, build_pkgs, handleVars, inputVars, groupVars>>

\* lines 529-547: unused removal candidates and leftover symlinks go
FixupCleanup ==
  /\ fpc = "match"
  /\ ref_pos[1] > Len(refs)
  /\ \E rmOrder \in SeqsOf(Unused(to_remove, used_shlibs)),
        usedOrder \in SeqsOf(used_shlibs),
        siblings \in SeqsOf({ q \in DOMAIN fs : fs[q].kind = "link" }) :
        LET r == CleanupResult(fs, host, to_remove, used_shlibs, rmOrder, usedOrder, siblings)
        IN /\ fs' = r.fs
           /\ host' = r.host
  /\ fpc' = "done"
  /\ UNCHANGED <<files, shlib_refs, ferror, bin_paths, binaries, refs, to_remove,
                 used_shlibs, ref_pos, fs0, matched, unlinked_early>>
  /\ UNCHANGED <<resolveVars, packages, build_pkgs, handleVars, inputVars, groupVars>>

\* ------------------------------------------------------------------------
\* One pass of _fixup_binaries over the images of the model
\* ------------------------------------------------------------------------
App == <<"bin", "app">>
Tool == <<"bin", "tool">>
So == <<"lib", "libfoo.so">>
So1 == <<"lib", "libfoo.so.1">>
So12 == <<"lib", "libfoo.so.1.2">>
Alt1 == <<"lib2", "libfoo.so.1">>

ImgPaths == {App, Tool, So, So1, So12, Alt1}
ListingOrder == <<App, Tool, So, So1, So12, Alt1>>

Lib(p) == File(TRUE, FALSE, ImgP(p))
Exe(p) == File(TRUE, TRUE, ImgP(p))

\* what each path of the image may hold
EntryChoices(p) ==
  CASE p = App -> { Exe(App) }
    [] p = Tool -> { Absent, Exe(Tool) }
    [] p = So -> { Absent,
                   Link(FALSE, <<"libfoo.so.1">>),
                   Link(FALSE, <<"libfoo.so.1.2">>),
                   Link(TRUE, <<"lib", "libfoo.so.1">>),
                   Link(FALSE, <<"..", "lib", "libfoo.so.1">>) }
    [] p = So1 -> { Absent, Lib(So1), Link(FALSE, <<"libfoo.so.1.2">>) }
    [] p = So12 -> { Absent, Lib(So12) }
    [] p = Alt1 -> { Absent, Lib(Alt1) }

Images == { img \in [ImgPaths -> UNION { EntryChoices(p) : p \in ImgPaths }] :
              \A p \in ImgPaths : img[p] \in EntryChoices(p) }

RefNames == {"libc.so.6", "libfoo.so", "libfoo.so.1"}

SeqsUpTo(S, n) == UNION { [1..k -> S] : k \in 0..n }

RpathChoices ==
  { <<>>, << <<"lib">> >>, << <<"lib2">>, <<"lib">> >>, << <<"bin", "..", "lib">> >> }

ToolRefChoices == { <<"libfoo.so">>, <<"libfoo.so.1">> }

\* the files the build host itself may hold where an absolute link points
HostChoices(img) ==
  IF img[So].kind = "link" /\ img[So].abs THEN { {}, {<<"lib", "libfoo.so.1">>} } ELSE { {} }

\* find -type f -o -type l: the entries that exist, in the order found
ListingOrders(img) ==
  LET present == SelectSeq(ListingOrder, LAMBDA p : img[p].kind # "absent")
  IN IF img[Tool].kind = "absent" THEN { present } ELSE { present, Reverse(present) }

InitFixup ==
  /\ fs \in Images
  /\ fs0 = fs
  /\ host \in HostChoices(fs)
  /\ files \in ListingOrders(fs)
  /\ \E appRefs \in SeqsUpTo(RefNames, MaxRefs), appRpaths \in RpathChoices,
        toolRefs \in ToolRefChoices :
        shlib_refs = [ p \in {App, Tool} |->
                         IF p = App THEN [shlibs |-> appRefs, rpaths |-> appRpaths]
                         ELSE [shlibs |-> IF fs[Tool].kind = "absent" THEN <<>> ELSE toolRefs,
                               rpaths |-> << <<"lib">> >>] ]
  /\ fpc = "scan"
  /\ ferror = ""
  /\ bin_paths = <<>>
  /\ binaries = {}
  /\ refs = <<>>
  /\ to_remove = {}
  /\ used_shlibs = {}
  /\ ref_pos = <<1, 1>>
  /\ matched = <<>>
  /\ unlinked_early = {}
  /\ pool = MakePool({}, {}, SingleVersion)
  /\ resOrder = NameSeq
  /\ hashOrder = NameSeq
  /\ InitResolveFrame
  /\ pc = "start"
  /\ InitHandleFrame
  /\ NoContext

NextFixup ==
  \/ FixupScan
  \/ FixupSkipBinary
  \/ FixupMatch
  \/ FixupCleanup

SpecFixup == InitFixup /\ [][NextFixup]_vars

\* ------------------------------------------------------------------------
\* Build.handle (lines 181-239)
\* ------------------------------------------------------------------------
\* what a call _resolve_deps(env, target, root_pkg, extra) may return or
\* raise: [err, packages, build_pkgs], one for each answer of the oracle
ResolveDepsOutcomes(pl, extra, rorder, horder) ==
  { ResolveDepsResult(pl, rt_res, build_res, horder) :
      rt_res \in Resolutions(pl, RootDeps(RootVersion, extra), FALSE, rorder),
      build_res \in Resolutions(pl, RootDeps(RootVersion, <<>>), TRUE, rorder) }
  \cup { [err |-> "SolverProblemError", packages |-> <<>>, build_pkgs |-> <<>>] }

\* variant: the retry passes no extra dependencies
RetryExtraDeps_None(mismatches) == <<>>

\* lines 189-191: the extra_deps handed to the second call
RetryExtraDeps(mismatches) == mismatches

\* line 182: the first resolution
HandleResolve ==
  /\ hpc = "idle"
  /\ \E r \in ResolveDepsOutcomes(pool, <<>>, resOrder, hashOrder) :
       /\ packages' = r.packages
       /\ build_pkgs' = r.build_pkgs
       /\ error' = r.err
       /\ hpc' = IF r.err = "" THEN "resolved" ELSE "raised"
  /\ calls' = Append(calls, <<>>)
  /\ UNCHANGED <<reresolve_deps, first_check, reported, built>>
  /\ UNCHANGED <<pc, extra_deps, pkg_map, rt_graph, graph, cyclic_runtime_deps,
                 last_cycle, current_cycle, all_requires_include_build_reqs,
                 removed, sorted_pkgs, cycles>>
  /\ UNCHANGED <<inputVars, groupVars, fixupVars>>

\* lines 187-191: the consistency check and, on mismatches, the second
\* resolution with the mismatches as extra dependencies
HandleReresolve ==
  /\ hpc = "resolved"
  /\ LET mismatches == CheckDepConsistency(packages, build_pkgs)
     IN /\ reresolve_deps' = mismatches
        /\ first_check' = mismatches
        /\ IF mismatches # <<>>
           THEN /\ \E r \in ResolveDepsOutcomes(pool, RetryExtraDeps(mismatches),
                                               resOrder, hashOrder) :
                     /\ packages' = r.packages
                     /\ build_pkgs' = r.build_pkgs
                     /\ error' = r.err
                     /\ hpc' = IF r.err = "" THEN "reresolved" ELSE "raised"
                /\ calls' = Append(calls, RetryExtraDeps(mismatches))
           ELSE /\ hpc' = "reresolved"
                /\ UNCHANGED <<packages, build_pkgs, error, calls>>
  /\ UNCHANGED <<reported, built>>
  /\ UNCHANGED <<pc, extra_deps, pkg_map, rt_graph, graph, cyclic_runtime_deps,
                 last_cycle, current_cycle, all_requires_include_build_reqs,
                 removed, sorted_pkgs, cycles>>
  /\ UNCHANGED <<inputVars, groupVars, fixupVars>>

\* lines 194-201: the second check; mismatches are reported and handle
\* returns 1
HandleCheckAgain ==
  /\ hpc = "reresolved"
  /\ LET mismatches == CheckDepConsistency(packages, build_pkgs)
     IN /\ reresolve_deps' = mismatches
        /\ IF mismatches # <<>>
           THEN /\ reported' = mismatches
                /\ hpc' = "failed"
           ELSE /\ reported' = reported
                /\ hpc' = "checked"
  /\ UNCHANGED <<packages, build_pkgs, error, calls, first_check, built>>
  /\ UNCHANGED <<pc, extra_deps, pkg_map, rt_graph, graph, cyclic_runtime_deps,
                 last_cycle, current_cycle, all_requires_include_build_reqs,
                 removed, sorted_pkgs, cycles>>
  /\ UNCHANGED <<inputVars, groupVars, fixupVars>>

\* lines 203-239: target.build(BuildRequest(deps=packages,
\* build_deps=build_pkgs, ...)), then return 0
HandleBuild ==
  /\ hpc = "checked"
  /\ built' = Append(built, [deps |-> packages, build_deps |-> build_pkgs])
  /\ hpc' = "done"
  /\ UNCHANGED <<packages, build_pkgs, error, calls, first_check, reported, reresolve_deps>>
  /\ UNCHANGED <<pc, extra_deps, pkg_map, rt_graph, graph, cyclic_runtime_deps,
                 last_cycle, current_cycle, all_requires_include_build_reqs,
                 removed, sorted_pkgs, cycles>>
  /\ UNCHANGED <<inputVars, groupVars, fixupVars>>

\* the pools handle is run on: two packages come in several versions
VersionedNames == {"b", "c"}

ManyVersions == [ n \in Names |-> IF n \in VersionedNames THEN 1..MaxVersion ELSE {1} ]

HandleCandReqs ==
  { PoolReq("a", "run",   Req("b", TRUE,  TRUE)),
    PoolReq("b", "run",   Req("c", TRUE,  TRUE)),
    PoolReq("c", "build", Req("b", TRUE,  TRUE)),
    PoolReq("a", "build", Req("c", TRUE,  TRUE)) }

HandleCandCyclic == { <<"b", "c">> }

HandlePools ==
  { MakePool(reqs, decls, ManyVersions) :
      reqs \in SUBSET HandleCandReqs, decls \in SUBSET HandleCandCyclic }

InitHandle ==
  /\ pool \in HandlePools
  /\ resOrder \in Orders
  /\ hashOrder \in Orders
  /\ InitResolveFrame
  /\ InitHandleFrame
  /\ NoContext
  /\ NoImage

NextHandle ==
  \/ HandleResolve
  \/ HandleReresolve
  \/ HandleCheckAgain
  \/ HandleBuild

SpecHandle == InitHandle /\ [][NextHandle]_vars

\* ------------------------------------------------------------------------
\* Properties
\* ------------------------------------------------------------------------
PkgNames(pkgs) == [ i \in 1..Len(pkgs) |-> pkgs[i].name ]

\* C1: when _resolve_deps returns, every requirement A -> B of a package of
\* the install order whose marker is valid has B strictly before A in the
\* install order.
C1_InstallOrderRespectsEdges ==
  pc = "returned" =>
    \A A \in Range(PkgNames(packages)) :
      \A r \in pool.requires[A] :
        r.marker =>
          /\ InSeq(r.name, PkgNames(packages))
          /\ IndexOf(r.name, PkgNames(packages)) < IndexOf(A, PkgNames(packages))

C1_Witness ==
  /\ pc = "returned"
  /\ \E A \in Range(PkgNames(packages)) :
       /\ \E r \in pool.requires[A] : r.marker
       /\ \E B \in Range(PkgNames(packages)) : \E r \in pool.requires[B] : ~r.marker /\ r.name = A

\* C2: in the returned build order, for every edge A -> B still in the
\* build graph when the sort succeeded, B occurs before the first
\* occurrence of A.
C2_BuildOrderRespectsEdges ==
  pc = "returned" =>
    \A k \in 1..Len(graph) :
      \A B \in Range(graph[k].preds) :
        \E i \in 1..Len(build_pkgs) :
          /\ build_pkgs[i].name = B
          /\ i < IndexOf(graph[k].node, PkgNames(build_pkgs))

\* the dynamically linked binaries of the listing and what they reference
DynBinaries == { p \in Range(files) : fs0[p].kind = "file" /\ fs0[p].binary /\ fs0[p].dyn }

Candidate(rpath, shlib) == Normalize(<<>>, Append(rpath, shlib))

NoProvider(shlib, rpaths) ==
  \A k \in 1..Len(rpaths) : Candidate(rpaths[k], shlib) \notin Bundled(bin_paths, shlib)

\* C3: after a successful pass every reference of a dynamically linked
\* binary to a library that is not an allowed system library has an rpath
\* entry r with r/<library> in the provider index, and that path is a
\* regular file of the image at the end.
C3_ReferencesResolved ==
  fpc = "done" =>
    \A p \in DynBinaries :
      \A j \in 1..Len(shlib_refs[p].shlibs) :
        LET shlib == shlib_refs[p].shlibs[j]
            rpaths == shlib_refs[p].rpaths
        IN shlib \notin AllowedSystemShlibs =>
             \E k \in 1..Len(rpaths) :
               /\ Candidate(rpaths[k], shlib) \in Bundled(bin_paths, shlib)
               /\ fs[Candidate(rpaths[k], shlib)].kind = "file"

C3_Witness ==
  /\ fpc = "done"
  /\ \E i \in 1..Len(matched) : matched[i].was_link
  /\ \E p \in DOMAIN fs : fs0[p].kind = "file" /\ fs[p].kind = "absent"

\* C4: a reference to a library that is not allowed and that no rpath entry
\* provides makes the pass fail, with one error when the binary has no
\* rpath at all and another when it has rpaths without the library.
C4_UnresolvedReferenceFails ==
  /\ fpc = "done" =>
       \A p \in DynBinaries :
         \A j \in 1..Len(shlib_refs[p].shlibs) :
           shlib_refs[p].shlibs[j] \notin AllowedSystemShlibs =>
             ~NoProvider(shlib_refs[p].shlibs[j], shlib_refs[p].rpaths)
  /\ \A i \in 1..Len(matched) :
       (matched[i].shlib \notin AllowedSystemShlibs
          /\ NoProvider(matched[i].shlib, matched[i].rpaths)) =>
         /\ i = Len(matched)
         /\ fpc = "failed"
         /\ matched[i].rpaths = <<>> => ferror = "no_rpath"
         /\ matched[i].rpaths # <<>> => ferror = "not_in_rpath"

C4_Witness ==
  /\ fpc = "failed"
  /\ ferror = "no_rpath"
  /\ matched[Len(matched)].rpaths = <<>>

\* the reference the matching loop handles next is to an allowed library
AllowedReferenceNext ==
  /\ fpc = "match"
  /\ ref_pos[1] <= Len(refs)
  /\ refs[ref_pos[1]].shlibs # <<>>
  /\ refs[ref_pos[1]].shlibs[ref_pos[2]] \in AllowedSystemShlibs

AllReferencesAllowed ==
  \A p \in DynBinaries : Range(shlib_refs[p].shlibs) \subseteq AllowedSystemShlibs

\* C5: a reference to an allowed system library is passed over: handling
\* it marks nothing used, schedules nothing for removal, changes no file
\* and raises nothing, whatever the rpath list; so a pass over binaries
\* whose references are all allowed never fails.
C5_AllowedReferenceSkipped ==
  /\ [](AllReferencesAllowed => fpc # "failed")
  /\ [][AllowedReferenceNext =>
          /\ used_shlibs' = used_shlibs
          /\ to_remove' = to_remove
          /\ fs' = fs
          /\ ferror' = ""
          /\ fpc' = "match"]_vars

C5_Witness ==
  /\ fpc = "done"
  /\ shlib_refs[App].rpaths = <<>>
  /\ shlib_refs[App].shlibs # <<>>
  /\ DynBinaries = {App}
  /\ AllReferencesAllowed
  /\ used_shlibs = {}

\* the image of the claim: bin/app referencing libfoo.so.1 through an rpath
\* that resolves to lib, lib/libfoo.so.1 a regular binary, lib/libfoo.so a
\* symlink to libfoo.so.1, nothing else
C6_Image ==
  /\ fpc # "idle"
  /\ fs0[App] = Exe(App)
  /\ fs0[Tool] = Absent
  /\ fs0[So] = Link(FALSE, <<"libfoo.so.1">>)
  /\ fs0[So1] = Lib(So1)
  /\ fs0[So12] = Absent
  /\ fs0[Alt1] = Absent
  /\ shlib_refs[App].shlibs = <<"libfoo.so.1">>
  /\ shlib_refs[App].rpaths \in { << <<"lib">> >>, << <<"bin", "..", "lib">> >> }

\* C6 as claimed: on that image the pass succeeds and leaves lib/libfoo.so
\* as the single regular file, the symlink and libfoo.so.1 both gone.
C6_Original ==
  C6_Image =>
    /\ fpc # "failed"
    /\ fpc = "done" => fs[So].kind = "file" /\ fs[So1].kind = "absent"

\* C6 as amended: on that image the pass succeeds, the symlink lib/libfoo.so
\* is gone, and lib/libfoo.so.1, the file the binary references, remains
\* unchanged as the single regular file of the library.
C6_ReferencedFileKept ==
  C6_Image =>
    /\ fpc # "failed"
    /\ fpc = "done" =>
         /\ fs[So] = Absent
         /\ fs[So1] = Lib(So1)
         /\ { p \in DOMAIN fs : fs[p].kind # "absent" } = {App, So1}

C6_Witness == C6_Image /\ fpc = "done"

\* the library files of the image as found, and for each the paths that
\* stood for it: the file and the symlinks resolving to it
RealLibs == { p \in DOMAIN fs0 : fs0[p].kind = "file" /\ ~fs0[p].dyn }

StandsFor(r) ==
  {r} \cup { q \in DOMAIN fs0 :
               fs0[q].kind = "link" /\ ~fs0[q].abs
                 /\ ResolveLink(fs0, q, Cardinality(DOMAIN fs0)) = ImgP(r) }

StillExists(fp) ==
  IF fp.root = "host" THEN fp.path \in host ELSE EntryAt(fs, fp.path).kind = "file"

MatchedDirectly(fp) ==
  \E i \in 1..Len(matched) : ~matched[i].was_link /\ matched[i].provider # <<>>
                               /\ ImgP(matched[i].provider) = fp

\* C7 as claimed: after a successful pass every library of the image is
\* represented by exactly one regular file, and no real file remains beside
\* a copy of it made by consolidation.
C7_Original ==
  fpc = "done" =>
    /\ \A r \in RealLibs :
         Cardinality({ q \in StandsFor(r) : fs[q].kind = "file" }) = 1
    /\ \A i \in 1..Len(matched) : matched[i].was_link => ~StillExists(matched[i].real)

\* C7 as amended: after a successful pass every library of the image is
\* still represented by at least one regular file, and a real file that
\* consolidation copied over a symlink is gone exactly when no reference
\* of a binary matched that real file itself.
C7_CopiedFileGoneUnlessUsed ==
  fpc = "done" =>
    /\ \A r \in RealLibs :
         Cardinality({ q \in StandsFor(r) : fs[q].kind = "file" }) >= 1
    /\ \A i \in 1..Len(matched) :
         matched[i].was_link =>
           (StillExists(matched[i].real) <=> MatchedDirectly(matched[i].real))

C7_Witness ==
  /\ fpc = "done"
  /\ \E i \in 1..Len(matched) :
       /\ matched[i].was_link
       /\ StillExists(matched[i].real)
       /\ fs[matched[i].provider].kind = "file"

\* the names two package lists resolve to different versions
Mismatched(pkgs, bpkgs) ==
  { n \in Names : \E i \in 1..Len(pkgs), j \in 1..Len(bpkgs) :
                    /\ pkgs[i].name = n
                    /\ bpkgs[j].name = n
                    /\ pkgs[i].version # bpkgs[j].version }

\* C8: handle calls _resolve_deps at most twice, the first time without
\* extra dependencies, the second time only after the first check found
\* mismatches and with exactly those; when the last check finds mismatches
\* handle reports every mismatched package, fails and never calls
\* target.build.
C8_SingleRetry ==
  /\ Len(calls) <= 2
  /\ Len(calls) >= 1 => calls[1] = <<>>
  /\ Len(calls) = 2 => first_check # <<>> /\ calls[2] = first_check
  /\ hpc = "failed" =>
       /\ Mismatched(packages, build_pkgs) # {}
       /\ Range(PkgNames(reported)) = Mismatched(packages, build_pkgs)
       /\ built = <<>>
  /\ built # <<>> => reported = <<>> /\ Mismatched(packages, build_pkgs) = {}

C8_Witness ==
  /\ hpc = "failed"
  /\ Len(calls) = 2
  /\ reported # <<>>

\* C9: whenever target.build is called, a package name that occurs in both
\* the install list and the build list has the same version in both.
C9_BuildListsAgree ==
  \A k \in 1..Len(built) : Mismatched(built[k].deps, built[k].build_deps) = {}

C9_Witness ==
  /\ built # <<>>
  /\ Len(calls) = 2
  /\ \E i \in 1..Len(built[1].deps), j \in 1..Len(built[1].build_deps) :
       built[1].deps[i] = built[1].build_deps[j] /\ built[1].deps[i].name \in VersionedNames

\* package X of the claim, found at one version by the runtime pass and
\* at version 2 by the build pass of the first resolution
X == "b"
XMismatch == Pkg(X, 2) \in Range(first_check)

\* C10 as claimed: after such a mismatch X==2 is forced into the runtime
\* requirements and then either the build proceeds with X at 2 in both
\* lists or handle fails with a list of mismatches that includes X.
C10_Original ==
  (XMismatch /\ hpc \in {"done", "failed"}) =>
    /\ Pkg(X, 2) \in Range(calls[2])
    /\ \/ /\ hpc = "done"
          /\ Pkg(X, 2) \in Range(built[1].deps)
          /\ Pkg(X, 2) \in Range(built[1].build_deps)
       \/ /\ hpc = "failed"
          /\ X \in Range(PkgNames(reported))

\* C10 as amended: after such a mismatch X==2 is forced into the runtime
\* requirements, so a re-resolution that returns has X at 2 in the install
\* list; then either no package differs between the two lists and the build
\* proceeds (X at 2 in both), or handle fails listing exactly the packages
\* that still differ, which need not include X.
C10_RetryForcesBuildVersion ==
  (XMismatch /\ hpc \in {"reresolved", "checked", "done", "failed"}) =>
    /\ Pkg(X, 2) \in Range(calls[2])
    /\ Pkg(X, 2) \in Range(packages)
    /\ hpc = "done" =>
         /\ Pkg(X, 2) \in Range(built[1].deps)
         /\ \A j \in 1..Len(built[1].build_deps) :
              built[1].build_deps[j].name = X => built[1].build_deps[j].version = 2
    /\ hpc = "failed" =>
         /\ reported # <<>>
         /\ Range(PkgNames(reported)) = Mismatched(packages, build_pkgs)

C10_Witness ==
  /\ XMismatch
  /\ hpc = "failed"
  /\ X \notin Range(PkgNames(reported))

\* the edges <<A, B>> (A depends on B) of a graph
Edges(G) ==
  UNION { { <<G[i].node, p>> : p \in Range(G[i].preds) } : i \in 1..Len(G) }

\* the loop of lines 349-375 has been entered in this call
LoopEntered == graph # NoGraph

\* the build graph as the loop found it: lines 322-340 on the resolution
\* pkg_map holds
InitialBuildGraph ==
  LET names == Restrict(resOrder, DOMAIN pkg_map)
  IN BuildGraph(pool, [ i \in 1..Len(names) |-> pkg_map[names[i]] ], hashOrder)

\* x <-> y is a 2-node cycle of G and G has no other cycle
OnlyCycle(G, x, y) ==
  /\ <<x, y>> \in Edges(G)
  /\ <<y, x>> \in Edges(G)
  /\ FindCycle(WithoutPred(G, x, y)) = <<>>
  /\ FindCycle(WithoutPred(G, y, x)) = <<>>

MutualCycle(x, y) ==
  /\ x # y
  /\ LoopEntered
  /\ OnlyCycle(InitialBuildGraph, x, y)
  /\ y \in pool.cyclic[x]
  /\ x \in pool.cyclic[y]

\* is d at the position right after the first p in pkgs
RightAfter(pkgs, p, d) ==
  /\ InSeq(p, PkgNames(pkgs))
  /\ IndexOf(p, PkgNames(pkgs)) < Len(pkgs)
  /\ pkgs[IndexOf(p, PkgNames(pkgs)) + 1].name = d

LastOf(cycle) == cycle[Len(cycle)]
BeforeLastOf(cycle) == cycle[Len(cycle) - 1]

Declares(p, d) == d \in pool.cyclic[p]

\* C12: the edge the loop removes for a reported cycle joins the cycle's
\* last two nodes and goes from a package that declares the other as a
\* cyclic runtime dependency to that other package; a reported cycle whose
\* last two nodes declare nothing of each other makes _resolve_deps fail
\* without an order.  So every removed edge has a source that declared
\* tolerance for its target.
C12_RemovedEdgesDeclared ==
  /\ \A k \in 1..Len(removed) :
       /\ Declares(removed[k][1], removed[k][2])
       /\ removed[k] \in { <<BeforeLastOf(cycles[k]), LastOf(cycles[k])>>,
                           <<LastOf(cycles[k]), BeforeLastOf(cycles[k])>> }
       /\ removed[k] = <<LastOf(cycles[k]), BeforeLastOf(cycles[k])>> =>
            ~Declares(BeforeLastOf(cycles[k]), LastOf(cycles[k]))
       /\ removed[k] \in Edges(InitialBuildGraph)
  /\ LoopEntered => Edges(graph) = Edges(InitialBuildGraph) \ Range(removed)
  /\ \A k \in 1..Len(cycles) :
       (/\ ~Declares(BeforeLastOf(cycles[k]), LastOf(cycles[k]))
        /\ ~Declares(LastOf(cycles[k]), BeforeLastOf(cycles[k]))) =>
         /\ k = Len(cycles)
         /\ Len(removed) = k - 1
         /\ pc = "failed"
         /\ error = "CycleError"
         /\ build_pkgs = <<>>

C12_Witness ==
  /\ pc = "returned"
  /\ \E k \in 1..Len(removed) : removed[k] = <<LastOf(cycles[k]), BeforeLastOf(cycles[k])>>

\* G has a cycle through four packages, each depending on the next
HasFourCycle(G) ==
  \E w, x, y, z \in Names :
    /\ Cardinality({w, x, y, z}) = 4
    /\ {<<w, x>>, <<x, y>>, <<y, z>>, <<z, w>>} \subseteq Edges(G)

\* the number of packages a reported cycle runs through (the list names
\* its first node again at the end)
CycleSize(cycle) == Len(cycle) - 1

\* the 4-node cycles of a graph, each as its set of edges
FourCycles(G) ==
  { {<<w, x>>, <<x, y>>, <<y, z>>, <<z, w>>} : w, x, y, z \in Names }
    \cap { C \in SUBSET Edges(G) : Cardinality(C) = 4 }

\* C13 as claimed: a build graph with a cycle through four packages always
\* makes _resolve_deps fail, whatever the packages declare, and no edge is
\* removed for that cycle.
C13_Original ==
  (LoopEntered /\ HasFourCycle(InitialBuildGraph)) => pc \notin {"splice", "returned"}

\* C13 as amended: when a cycle through four packages is reported the loop
\* raises CycleError whatever the packages declare, without removing an
\* edge for it; a build graph holding such a cycle is sorted only when
\* every cycle reported ran through two packages and each of its 4-node
\* cycles lost an edge to the breaking of one of those.
C13_FourCycleFails ==
  /\ \A k \in 1..Len(cycles) :
       CycleSize(cycles[k]) = 4 =>
         /\ k = Len(cycles)
         /\ Len(removed) = k - 1
         /\ pc = "failed"
         /\ error = "CycleError"
  /\ (LoopEntered /\ HasFourCycle(InitialBuildGraph) /\ pc \in {"splice", "returned"}) =>
       /\ \A k \in 1..Len(cycles) : CycleSize(cycles[k]) = 2
       /\ \A C \in FourCycles(InitialBuildGraph) : C \cap Range(removed) # {}
       /\ \A k \in 1..Len(removed) :
            <<removed[k][2], removed[k][1]>> \in Edges(InitialBuildGraph)

C13_Witness ==
  /\ pc = "failed"
  /\ cycles # <<>>
  /\ CycleSize(cycles[Len(cycles)]) = 4
  /\ \E i \in 1..4 :
       Declares(cycles[Len(cycles)][i], cycles[Len(cycles)][i + 1])
         \/ Declares(cycles[Len(cycles)][i + 1], cycles[Len(cycles)][i])

\* what the call being made would return had the sets of names been
\* iterated in the order h instead
ResultUnder(h) ==
  { ResolveDepsResult(pool, rt_res, build_res, h) :
      rt_res \in Resolutions(pool, RootDeps(RootVersion, extra_deps), FALSE, resOrder),
      build_res \in Resolutions(pool, RootDeps(RootVersion, <<>>), TRUE, resOrder) }

\* C14 as claimed: the two orders _resolve_deps returns for a pool, a root
\* and an oracle are the same whatever the iteration order of the
\* dependency sets the graphs are built from.
C14_Original ==
  pc = "returned" =>
    \A h \in Orders :
      \A r \in ResultUnder(h) :
        r.err = "" /\ r.packages = packages /\ r.build_pkgs = build_pkgs

\* C15: in the returned build order every package P with recorded
\* late-injected dependencies has an occurrence that is followed
\* immediately by those dependencies, in the order recorded, and that the
\* packages the sort put before P still precede.
C15_SplicedRightAfter ==
  pc = "returned" =>
    \A k \in 1..Len(cyclic_runtime_deps) :
      LET P == cyclic_runtime_deps[k].pkg
          deps == cyclic_runtime_deps[k].deps
      IN \E i \in 1..Len(build_pkgs) :
           /\ build_pkgs[i] = P
           /\ i + Len(deps) <= Len(build_pkgs)
           /\ \A j \in 1..Len(deps) : build_pkgs[i + j] = deps[j]
           /\ \A m \in 1..(IndexOf(P, sorted_pkgs) - 1) :
                \E n \in 1..(i - 1) : build_pkgs[n] = sorted_pkgs[m]

\* the reported cycle cycles[k] ended the call with the CycleError re-raised
\* and no edge removed for it
Rejected(k) ==
  /\ k = Len(cycles)
  /\ Len(removed) = k - 1
  /\ pc = "failed"
  /\ error = "CycleError"

LastTwoDeclared(cycle) ==
  \/ Declares(BeforeLastOf(cycle), LastOf(cycle))
  \/ Declares(LastOf(cycle), BeforeLastOf(cycle))

\* C16 as claimed: a reported cycle through exactly three packages is not
\* rejected for its length: when one of its last two nodes declares the
\* other, the loop does not re-raise the CycleError for it.
C16_Original ==
  \A k \in 1..Len(cycles) :
    (CycleSize(cycles[k]) = 3 /\ LastTwoDeclared(cycles[k])) => ~Rejected(k)

\* C16 as amended: a reported cycle is rejected for its size whenever it
\* runs through more than two packages (its list, which names the first
\* node again at the end, is longer than 3): a cycle through three
\* packages is re-raised whatever is declared, and every cycle an edge is
\* removed for is a 2-node cycle.
C16_OnlyTwoCyclesHandled ==
  /\ \A k \in 1..Len(cycles) : CycleSize(cycles[k]) >= 3 => Rejected(k)
  /\ \A k \in 1..Len(removed) : CycleSize(cycles[k]) = 2

C16_Witness ==
  /\ cycles # <<>>
  /\ CycleSize(cycles[Len(cycles)]) = 3
  /\ LastTwoDeclared(cycles[Len(cycles)])
  /\ Rejected(Len(cycles))

\* the cycle the loop handled on the iteration just before (<<>>, standing
\* for None, when there was none)
PreviousCycle == IF cycles = <<>> THEN <<>> ELSE cycles[Len(cycles)]

\* C17: whenever an iteration of the loop is reported a cycle, the value
\* the cycle is compared with for the no-progress check is the cycle
\* handled on the iteration just before (none on the first iteration), and
\* a reported cycle equal to the one handled just before it is rejected.
C17_ComparedWithPrevious ==
  /\ (pc = "loop" /\ FindCycle(graph) # <<>>) => last_cycle = PreviousCycle
  /\ \A k \in 2..Len(cycles) : cycles[k] = cycles[k - 1] => Rejected(k)

\* an iteration of the loop that ends in a retry
Retry == pc = "loop" /\ pc' = "loop"

\* C18: the cycle-breaking loop terminates, with a sorted list or with an
\* error: every retry removes exactly one edge that was in the graph, so
\* there are never more retries than the build graph had edges, and no
\* cycle is reported on two iterations.
C18_LoopTerminates ==
  /\ [][Retry => \E e \in Edges(graph) :
                   /\ Edges(graph') = Edges(graph) \ {e}
                   /\ removed' = Append(removed, e)]_vars
  /\ [](LoopEntered => Len(removed) <= Cardinality(Edges(InitialBuildGraph)))
  /\ [](\A j, k \in 1..Len(cycles) : j # k => Range(cycles[j]) # Range(cycles[k]))
  /\ (pc = "loop") ~> (pc \in {"splice", "failed"})

C18_Witness ==
  /\ pc = "splice"
  /\ Len(removed) = 3
  /\ Len(cycles) = 3

\* deps holds exactly one constraint for every name the two lists have at
\* different versions, at the version of the build list, and nothing else
ExactlyThePins(deps, pkgs, bpkgs) ==
  /\ \A n \in Mismatched(pkgs, bpkgs) :
       Cardinality({ i \in 1..Len(deps) : deps[i].name = n }) = 1
  /\ \A i \in 1..Len(deps) :
       /\ deps[i].name \in Mismatched(pkgs, bpkgs)
       /\ deps[i] \in Range(bpkgs)

\* C19: _check_dep_consistency(packages, build_pkgs) returns exactly one
\* constraint for each name the two lists have at different versions, pinned
\* to the build-time version, and nothing for any other name; the retry
\* hands these constraints to _resolve_deps, which adds them to the
\* requirements of the runtime root, so an install list it returns has every
\* one of them.
C19_ConstraintsPinBuildVersion ==
  [][/\ hpc = "resolved" =>
          /\ ExactlyThePins(first_check', packages, build_pkgs)
          /\ first_check' # <<>> =>
               /\ calls' = Append(calls, first_check')
               /\ Range(first_check') \subseteq Range(RootDeps(RootVersion, calls'[2]))
               /\ error' = "" => Range(first_check') \subseteq Range(packages')
     /\ hpc = "reresolved" => ExactlyThePins(reresolve_deps', packages, build_pkgs)
    ]_vars

C19_Witness ==
  /\ hpc = "reresolved"
  /\ Len(first_check) = 2
  /\ Len(calls) = 2
  /\ error = ""

\* the requirements of package A that can stand for an edge A -> B of a
\* graph: valid marker, activated
LiveReqs(reqs, B) == { r \in reqs : r.name = B /\ r.marker /\ r.activated }

\* C20: the runtime graph and the build graph have an edge A -> B only for
\* a requirement of A on B whose marker is valid for the environment and
\* which is activated (its extras gate, if any, is met by the active
\* extras).
C20_EdgesValidAndActivated ==
  /\ \A e \in Edges(rt_graph) : LiveReqs(pool.requires[e[1]], e[2]) # {}
  /\ \A e \in Edges(graph) :
       LiveReqs(pool.requires[e[1]] \cup pool.build_requires[e[1]], e[2]) # {}

\* package n names itself in its requirements or build requirements
NamesItself(n) ==
  \E r \in pool.requires[n] \cup pool.build_requires[n] :
    r.name = n /\ r.marker /\ r.activated

\* C21: the build graph never has a self-edge, also when a resolved
\* package's requirements or build requirements name the package itself;
\* hence no cycle through a single package is ever reported.
C21_NoSelfEdge ==
  /\ \A i \in 1..Len(graph) : ~InSeq(graph[i].node, graph[i].preds)
  /\ \A k \in 1..Len(cycles) : CycleSize(cycles[k]) >= 2

C21_Witness ==
  /\ LoopEntered
  /\ \E i \in 1..Len(graph) : NamesItself(graph[i].node) /\ graph[i].preds # <<>>
  /\ pc = "returned"

\* the edge targets of G that are not nodes of G (G has one node for each
\* package of the pass's resolution)
Unresolved(G) == { e[2] : e \in Edges(G) } \ GraphKeys(G)

\* C22: an edge target of the runtime graph or of the build graph that is
\* not a package of the pass's resolution makes _resolve_deps fail: a call
\* that gets past a pass has every edge target of that pass's graph
\* resolved, and the orders returned hold resolved packages only.
C22_EdgeTargetsResolved ==
  /\ (rt_graph # NoGraph /\ Unresolved(rt_graph) # {}) =>
       pc = "failed" /\ error \in {"KeyError", "CycleError"}
  /\ (graph # NoGraph /\ Unresolved(graph) # {}) =>
       pc = "failed" /\ error \in {"KeyError", "CycleError"}
  /\ pc = "returned" =>
       /\ Range(PkgNames(packages)) \subseteq GraphKeys(rt_graph)
       /\ Range(PkgNames(build_pkgs)) \subseteq GraphKeys(graph)
       /\ Range(build_pkgs) \subseteq Range([ i \in 1..Len(graph) |-> pkg_map[graph[i].node] ])

C22_Witness ==
  /\ pc = "failed"
  /\ error = "KeyError"
  /\ Unresolved(rt_graph) # {}

\* the path of the first rpath entry, in declared order, whose candidate
\* for shlib is in the provider index (<<>> when no entry has one)
FirstProvider(shlib, rpaths) ==
  IF NoProvider(shlib, rpaths) THEN <<>>
  ELSE Candidate(rpaths[CHOOSE k \in 1..Len(rpaths) :
                          /\ Candidate(rpaths[k], shlib) \in Bundled(bin_paths, shlib)
                          /\ \A j \in 1..(k - 1) :
                               Candidate(rpaths[j], shlib) \notin Bundled(bin_paths, shlib)],
                 shlib)

\* the real file of the image a symlink of the image stands for: relative
\* targets against the symlink's directory, absolute ones against the
\* image root
ImageTarget(img, p) ==
  IF img[p].abs THEN Normalize(<<>>, img[p].parts)
  ELSE ResolveLink(img, p, Cardinality(DOMAIN img)).path

\* the matching phase is under way or has just failed
Matching == fpc \in {"match", "failed"} /\ matched # <<>>

\* C23: the reference handled last, when it is not to an allowed library
\* and some rpath entry provides it, is matched by the first such entry in
\* declared order: handling it raises nothing, exactly the providers
\* matched so far are marked used, a provider that was a symlink is now a
\* regular file with the content of the real file it pointed at and that
\* real file is a removal candidate, and every regular file of the image is
\* unchanged.
C23_FirstRpathWins ==
  Matching =>
    LET m == matched[Len(matched)]
        p == FirstProvider(m.shlib, m.rpaths)
    IN (m.shlib \notin AllowedSystemShlibs /\ p # <<>>) =>
         /\ m.err = ""
         /\ m.provider = p
         /\ used_shlibs = { ImgP(matched[i].provider) :
                              i \in { j \in 1..Len(matched) : matched[j].provider # <<>> } }
         /\ m.was_link = (fs0[p].kind = "link"
                            /\ \A i \in 1..(Len(matched) - 1) : matched[i].provider # p)
         /\ m.was_link =>
              /\ fs[p] = fs0[ImageTarget(fs0, p)]
              /\ fs[p].kind = "file"
              /\ ImgP(ImageTarget(fs0, p)) \in to_remove
         /\ \A q \in DOMAIN fs0 : fs0[q].kind = "file" => fs[q] = fs0[q]

\* C24: at the end of a pass a removal candidate is gone exactly when its
\* path is not in the used set; a real file that a reference matched
\* directly is still there, unchanged, whether the reference that made it a
\* removal candidate was handled before or after.
C24_UsedCandidatesKept ==
  fpc = "done" =>
    /\ \A fp \in to_remove : ~StillExists(fp) <=> fp \notin used_shlibs
    /\ \A i \in 1..Len(matched) :
         (matched[i].provider # <<>> /\ fs0[matched[i].provider].kind = "file") =>
           fs[matched[i].provider] = fs0[matched[i].provider]

\* a removal candidate that is also used, the direct reference coming
\* before the reference to the symlink
C24_Witness ==
  /\ fpc = "done"
  /\ \E i, j \in 1..Len(matched) :
       /\ i < j
       /\ matched[i].provider # <<>> /\ ~matched[i].was_link
       /\ matched[j].was_link
       /\ matched[j].real = ImgP(matched[i].provider)
       /\ matched[i].binary # matched[j].binary
       /\ matched[j].real \in to_remove \cap used_shlibs
  /\ to_remove \ used_shlibs = {}

\* the listing has been scanned
Scanned == fpc \in {"match", "failed", "done"}

\* the image path a symlink's target names, one level followed: relative
\* targets against the symlink's directory, absolute ones against the
\* image root
OneLevelTarget(img, p) ==
  IF img[p].abs THEN Normalize(<<>>, img[p].parts)
  ELSE Normalize(<<>>, Parent(p) \o img[p].parts)

\* C25: a symlink of the listing is in the provider index under its own
\* basename exactly when its target, followed one level and resolved inside
\* the image root, is the install path of a registered binary that is not a
\* symlink; a symlink to a symlink is not registered.
C25_SymlinkRegistered ==
  Scanned =>
    \A p \in Range(files) :
      fs0[p].kind = "link" =>
        /\ p \in Bundled(bin_paths, Basename(p)) <=> OneLevelTarget(fs0, p) \in binaries
        /\ EntryAt(fs0, OneLevelTarget(fs0, p)).kind = "link" =>
             p \notin Bundled(bin_paths, Basename(p))

\* the real files and the symlinks of the image as found that are gone
DeletedFiles == { r \in DOMAIN fs0 : fs0[r].kind = "file" /\ fs[r].kind = "absent" }
RemovedLinks == { q \in DOMAIN fs0 : fs0[q].kind = "link" /\ fs[q].kind = "absent" }
KeptLinks == { q \in DOMAIN fs0 : fs0[q].kind = "link" /\ fs[q].kind = "link" }

\* the file a symlink of the image as found resolved to
ResolvedIn(img, q) ==
  IF img[q].abs THEN HostP(img[q].parts) ELSE ResolveLink(img, q, Cardinality(DOMAIN img))

NoLinkLeftTo(r) ==
  \A q \in DOMAIN fs :
    (fs[q].kind = "link" /\ Parent(q) = Parent(r)) => ~PointsAt(fs, q, ImgP(r))

C27_BuildOrderEachOnce ==
  pc = "returned" =>
    \A n \in DOMAIN pkg_map : Count(pkg_map[n], build_pkgs) = 1

\* the pass was aborted by one of the two linkage errors
LinkageAbort == fpc = "failed" /\ ferror \in {"no_rpath", "not_in_rpath"}

\* C28: while references are being matched no real file of the image is
\* deleted or changed, deletions come only once every reference has been
\* matched; so a pass aborted by a linkage error has lost no content (all
\* that changed is symlinks replaced by regular copies), and every
\* consolidation found the real file it copies from.
C28_NoDeletionWhileMatching ==
  /\ fpc \in {"scan", "match", "failed"} =>
       \A q \in DOMAIN fs0 : fs0[q].kind = "file" => fs[q] = fs0[q]
  /\ unlinked_early = {}
  /\ LinkageAbort =>
       \A q \in DOMAIN fs0 : fs[q] = fs0[q] \/ (fs0[q].kind = "link" /\ fs[q].kind = "file")
  /\ \A i \in 1..Len(matched) : matched[i].was_link => matched[i].err = ""

\* C29: all_requires_include_build_reqs is set exactly while the build-time
\* solve is running: it is not set while the runtime solve runs, nor once
\* the build-time solve has returned or raised, nor after _resolve_deps has
\* returned or failed (so the next call, the retry included, starts with it
\* lowered).
C29_FlagOnlyDuringBuildSolve ==
  /\ all_requires_include_build_reqs <=> pc = "build_solving"
  /\ pc \in {"start", "runtime_done", "loop", "splice", "returned", "failed"} =>
       ~all_requires_include_build_reqs

C29_Witness ==
  /\ pc = "failed"
  /\ error = "SolverProblemError"
  /\ packages # <<>>
  /\ ~all_requires_include_build_reqs

\* ------------------------------------------------------------------------
\* Provider.incompatibilities_for and extra_requirements (repository.py)
\* ------------------------------------------------------------------------
MaxDeps == 2

\* requirements a package's main group or its build requirements can hold;
\* two requirements of one name are distinct objects (they differ in marker)
GroupReqs ==
  { Req("b", TRUE, TRUE), Req("b", FALSE, TRUE), Req("c", TRUE, FALSE),
    Req("d", TRUE, TRUE) }

DepLists == SeqsUpTo(GroupReqs, MaxDeps)

\* lines 167-173: the group is created empty when the package has none
GroupOnEntry(hg, deps) == IF hg THEN deps ELSE <<>>

\* lines 170 and 173: orig_reqs = list(dep_group.dependencies), [] for a new group
OrigReqs(hg, deps) == GroupOnEntry(hg, deps)

\* line 175
OrigReqNames(orig) == { orig[i].name : i \in 1..Len(orig) }

\* line 177
AllReqs(orig, rq) ==
  orig \o SelectSeq(rq, LAMBDA d : d.name \notin OrigReqNames(orig))

\* DependencyGroup.add_dependency: the dependency is appended to the list
AddDependency(deps, dep) == Append(deps, dep)

\* lines 180-182: for dep in all_reqs: if dep.is_activated(): add_dependency
RECURSIVE AddActivated(_, _)
AddActivated(deps, all) ==
  IF all = <<>> THEN deps
  ELSE AddActivated(IF Head(all).activated THEN AddDependency(deps, Head(all))
                    ELSE deps,
                    Tail(all))

\* line 186: dep_group._dependencies = orig_reqs
RestoreGroup(orig) == orig

\* lines 140-141: without include_build_reqs the solver's own
\* incompatibilities_for runs on the package as it is, and returns or raises
PlainCall ==
  /\ xpc = "call"
  /\ ~include_build_reqs
  /\ entry' = [has_group |-> has_group, dependencies |-> dependencies]
  /\ \E raised \in BOOLEAN : xerror' = IF raised THEN "Exception" ELSE ""
  /\ xpc' = "exited"
  /\ UNCHANGED <<include_build_reqs, breqs, has_group, dependencies, orig_reqs>>
  /\ UNCHANGED <<resolveVars, packages, build_pkgs, handleVars, inputVars, fixupVars>>

\* lines 136-138 and 167-184: the context is entered, up to its yield
EnterContext ==
  /\ xpc = "call"
  /\ include_build_reqs
  /\ entry' = [has_group |-> has_group, dependencies |-> dependencies]
  /\ has_group' = TRUE
  /\ orig_reqs' = OrigReqs(has_group, dependencies)
  /\ dependencies' = AddActivated(GroupOnEntry(has_group, dependencies),
                                  AllReqs(OrigReqs(has_group, dependencies), breqs))
  /\ xpc' = "inside"
  /\ UNCHANGED <<xerror, include_build_reqs, breqs>>
  /\ UNCHANGED <<resolveVars, packages, build_pkgs, handleVars, inputVars, fixupVars>>

\* lines 139 and 185-186: the body returns and the finally clause runs
BodyReturns ==
  /\ xpc = "inside"
  /\ dependencies' = RestoreGroup(orig_reqs)
  /\ xerror' = ""
  /\ xpc' = "exited"
  /\ UNCHANGED <<include_build_reqs, breqs, has_group, orig_reqs, entry>>
  /\ UNCHANGED <<resolveVars, packages, build_pkgs, handleVars, inputVars, fixupVars>>

\* lines 139 and 185-186: the body raises and the finally clause runs
BodyRaises ==
  /\ xpc = "inside"
  /\ dependencies' = RestoreGroup(orig_reqs)
  /\ xerror' = "Exception"
  /\ xpc' = "exited"
  /\ UNCHANGED <<include_build_reqs, breqs, has_group, orig_reqs, entry>>
  /\ UNCHANGED <<resolveVars, packages, build_pkgs, handleVars, inputVars, fixupVars>>

InitContext ==
  /\ xpc = "call"
  /\ xerror = ""
  /\ include_build_reqs \in BOOLEAN
  /\ breqs \in DepLists
  /\ has_group \in BOOLEAN
  /\ dependencies \in IF has_group THEN DepLists ELSE {<<>>}
  /\ orig_reqs = <<>>
  /\ entry = <<>>
  /\ pool = MakePool({}, {}, SingleVersion)
  /\ resOrder = NameSeq
  /\ hashOrder = NameSeq
  /\ InitResolveFrame
  /\ InitHandleFrame
  /\ NoImage

NextContext ==
  \/ PlainCall
  \/ EnterContext
  \/ BodyReturns
  \/ BodyRaises

SpecContext == InitContext /\ [][NextContext]_vars

\* the requirements the context has put behind those the group held on entry
AddedInContext ==
  SubSeq(dependencies, Len(entry.dependencies) + 1, Len(dependencies))

\* the group holds what it held when incompatibilities_for was called
GroupAsOnEntry ==
  dependencies = (IF entry.has_group THEN entry.dependencies ELSE <<>>)

\* C30: once incompatibilities_for has left the extra_requirements context,
\* by return or by exception, the main group holds exactly the requirements
\* it held on entry (none if the group did not exist); inside the context the
\* group is its entry content followed only by build requirements that are
\* activated and whose names the group did not hold on entry.
C30_GroupRestoredOnlyNewAdded ==
  /\ xpc = "exited" => GroupAsOnEntry
  /\ xpc = "inside" =>
       /\ Len(dependencies) >= Len(entry.dependencies)
       /\ SubSeq(dependencies, 1, Len(entry.dependencies)) = entry.dependencies
       /\ \A i \in 1..Len(AddedInContext) :
            /\ AddedInContext[i] \in Range(breqs)
            /\ AddedInContext[i].activated
            /\ AddedInContext[i].name \notin OrigReqNames(entry.dependencies)

====
